---- MODULE Spec2Model ----
(***************************************************************************)
(* A model of PharmaGEN's dialogue sequencer (src/app.py): the session     *)
(* state machine driven by process_chat, the translation adapter           *)
(* gemini_translate, the completion wrapper get_gemini_response and the    *)
(* regex field extraction of the report assembler.                         *)
(*                                                                         *)
(* Text is a sequence of symbols.  A symbol is a one-character string; a   *)
(* literal of the code that is only ever copied (a fixed bot message, the  *)
(* fixed part of a prompt) is kept as one multi-character symbol, which is *)
(* neither white space nor a cased letter.                                 *)
(***************************************************************************)
EXTENDS Naturals, Sequences, FiniteSets

VARIABLES
    gemini_client,       \* TRUE: the client object exists; FALSE: it is None
    state,               \* the Session State (gr.State chat_state)
    history,             \* the chatbot's list of [user, bot] pairs
    english_summary,     \* the hidden English summary component
    translated_summary,  \* the visible translated summary component
    requests,            \* the service requests issued by the last handler
    args,                \* unit specifications: the arguments of the call
    ret                  \* unit specifications: the call's result; in the
                         \* session, the file component pdf_output

vars == <<gemini_client, state, history, english_summary, translated_summary,
          requests, args, ret>>

-----------------------------------------------------------------------------
(* Characters and the str methods the code uses.                           *)

LowerLetters ==
    <<"a", "b", "c", "d", "e", "f", "g", "h", "i", "j", "k", "l", "m",
      "n", "o", "p", "q", "r", "s", "t", "u", "v", "w", "x", "y", "z">>

UpperLetters ==
    <<"A", "B", "C", "D", "E", "F", "G", "H", "I", "J", "K", "L", "M",
      "N", "O", "P", "Q", "R", "S", "T", "U", "V", "W", "X", "Y", "Z">>

LetterIndex == DOMAIN LowerLetters

LowerSet == {LowerLetters[i] : i \in LetterIndex}

UpperSet == {UpperLetters[i] : i \in LetterIndex}

LowerOf ==
    [c \in UpperSet |-> LowerLetters[CHOOSE i \in LetterIndex : UpperLetters[i] = c]]

UpperOf ==
    [c \in LowerSet |-> UpperLetters[CHOOSE i \in LetterIndex : LowerLetters[i] = c]]

IsCased(c) == c \in LowerSet \/ c \in UpperSet

\* str.lower() on one character
ToLower(c) == IF c \in UpperSet THEN LowerOf[c] ELSE c

\* str.upper() on one character
ToUpper(c) == IF c \in LowerSet THEN UpperOf[c] ELSE c

\* str.lower() (the concatenation makes the result a tuple)
Lower(s) == <<>> \o [i \in 1..Len(s) |-> ToLower(s[i])]

\* the white space str.strip() removes
IsSpace(c) == c \in {" ", "\n", "\t", "\r"}

\* str.lstrip() and str.rstrip()
RECURSIVE LStrip(_)
LStrip(s) == IF s # <<>> /\ IsSpace(Head(s)) THEN LStrip(Tail(s)) ELSE s

RECURSIVE RStrip(_)
RStrip(s) ==
    IF s # <<>> /\ IsSpace(s[Len(s)]) THEN RStrip(SubSeq(s, 1, Len(s) - 1)) ELSE s

\* str.strip()
Strip(s) == RStrip(LStrip(s))

\* only the first character put in upper case, the others left as typed
Title_first_only(s) ==
    <<>> \o [i \in 1..Len(s) |-> IF i = 1 THEN ToUpper(s[i]) ELSE s[i]]

\* str.title(): a cased character is upper-cased when the character before
\* it is not cased (or there is none) and lower-cased otherwise
Title(s) ==
    <<>> \o
    [i \in 1..Len(s) |->
        IF ~IsCased(s[i]) THEN s[i]
        ELSE IF i = 1 \/ ~IsCased(s[i - 1]) THEN ToUpper(s[i])
        ELSE ToLower(s[i])]

\* pat occurs in s at position i
MatchAt(s, pat, i) ==
    /\ i >= 1
    /\ i + Len(pat) - 1 <= Len(s)
    /\ \A k \in 1..Len(pat) : s[i + k - 1] = pat[k]

\* pat in s
Contains(s, pat) == \E i \in 1..(Len(s) + 1) : MatchAt(s, pat, i)

\* the value None, for a field that holds text and for one that holds a code
None == <<"None">>

NoCode == "None"

\* Python truth of a text value: None and "" are false
Truthy(t) == t # None /\ t # <<>>

-----------------------------------------------------------------------------
(* Configuration (src/app.py:28-33).                                       *)

LANG_ITEMS ==
    << <<<<"E", "n", "g", "l", "i", "s", "h">>, "en">>,
       <<<<"A", "r", "a", "b", "i", "c">>, "ar">>,
       <<<<"G", "e", "r", "m", "a", "n">>, "de">>,
       <<<<"S", "p", "a", "n", "i", "s", "h">>, "es">>,
       <<<<"F", "r", "e", "n", "c", "h">>, "fr">>,
       <<<<"H", "i", "n", "d", "i">>, "hi">>,
       <<<<"I", "t", "a", "l", "i", "a", "n">>, "it">>,
       <<<<"J", "a", "p", "a", "n", "e", "s", "e">>, "ja">>,
       <<<<"K", "o", "r", "e", "a", "n">>, "ko">>,
       <<<<"P", "o", "r", "t", "u", "g", "u", "e", "s", "e">>, "pt">>,
       <<<<"R", "u", "s", "s", "i", "a", "n">>, "ru">>,
       <<<<"C", "h", "i", "n", "e", "s", "e">>, "zh">>,
       <<<<"B", "e", "n", "g", "a", "l", "i">>, "bn">>,
       <<<<"T", "a", "m", "i", "l">>, "ta">>,
       <<<<"T", "e", "l", "u", "g", "u">>, "te">>,
       <<<<"T", "h", "a", "i">>, "th">>,
       <<<<"U", "k", "r", "a", "i", "n", "i", "a", "n">>, "uk">>,
       <<<<"T", "u", "r", "k", "i", "s", "h">>, "tr">>,
       <<<<"V", "i", "e", "t", "n", "a", "m", "e", "s", "e">>, "vi">>,
       <<<<"K", "a", "n", "n", "a", "d", "a">>, "kn">> >>

\* LANG_CODES.keys()
LangNames == {LANG_ITEMS[i][1] : i \in DOMAIN LANG_ITEMS}

\* LANG_CODES.values()
LangCodeValues == {LANG_ITEMS[i][2] : i \in DOMAIN LANG_ITEMS}

\* LANG_CODES[name]
LANG_CODES(name) ==
    LANG_ITEMS[CHOOSE i \in DOMAIN LANG_ITEMS : LANG_ITEMS[i][1] = name][2]

\* next((name for name, code in LANG_CODES.items() if code == c), c)
LangNameOf(c) ==
    IF c \in LangCodeValues
    THEN LANG_ITEMS[CHOOSE i \in DOMAIN LANG_ITEMS :
                        /\ LANG_ITEMS[i][2] = c
                        /\ \A j \in DOMAIN LANG_ITEMS :
                               LANG_ITEMS[j][2] = c => i <= j][1]
    ELSE <<c>>

-----------------------------------------------------------------------------------------------------------------------------------------------------
(* The hosted service.  A handler issues its requests one after the other; *)
(* log is the sequence of requests issued so far by the running handler    *)
(* and orc says how the service answers them: the requests whose class is  *)
(* in orc.fail raise an exception whose text is orc.err, the others return *)
(* a response.                                                              *)

\* the head of the diagnosis prompt (src/app.py:403-408)
DIAG_PROMPT_HEAD ==
    "Based on the following symptoms and allergies, provide: 1. A potential diagnosis 2. A hypothetical new drug concept that could treat this condition 3. Hypothetical dosage instructions 4. Safety considerations related to the patient's allergies"

\* the classes of requests: a translation, the diagnosis, any other completion
RequestClass(req) ==
    IF req.prompt = <<>> THEN "complete"
    ELSE IF req.prompt[1] \in {"Translate the following text from ",
                          "Translate the following text to "}
    THEN "translate"
    ELSE IF req.prompt[1] = DIAG_PROMPT_HEAD THEN "diagnose"
    ELSE "complete"

\* whether the service fails the request
Fails(req, orc) == RequestClass(req) \in orc.fail

\* response.text of a request that succeeds: the diagnosis prompt is answered
\* by orc.diag, any other prompt by a text that quotes the prompt, with white
\* space around it
ServiceText(req, orc) ==
    IF RequestClass(req) = "diagnose"
    THEN orc.diag
    ELSE <<" ", "<reply>">> \o req.prompt \o <<"</reply>", "\n">>

\* the prompt of gemini_translate (lines 74-80)
translate_prompt(text, effective_src_lang_code, effective_tgt_lang_code) ==
    IF effective_src_lang_code # "auto"
    THEN <<"Translate the following text from ">>
         \o LangNameOf(effective_src_lang_code)
         \o <<" to ">> \o LangNameOf(effective_tgt_lang_code)
         \o <<":", "\n", "\n">> \o text
    ELSE <<"Translate the following text to ">>
         \o LangNameOf(effective_tgt_lang_code)
         \o <<":", "\n", "\n">> \o text

\* the failure's text returned in place of the original text
translate_request_error(text, req, log, orc) ==
    IF Fails(req, orc)
    THEN [out |-> <<"Translation error: ">> \o orc.err, log |-> Append(log, req)]
    ELSE [out |-> Strip(ServiceText(req, orc)), log |-> Append(log, req)]

\* a request that failed issued a second time
translate_request_retry(text, req, log, orc) ==
    IF Fails(req, orc)
    THEN [out |-> text, log |-> Append(Append(log, req), req)]
    ELSE [out |-> Strip(ServiceText(req, orc)), log |-> Append(log, req)]

\* gemini_translate, lines 82-87: the request and its outcome
translate_request(text, req, log, orc) ==
    IF Fails(req, orc)
    THEN [out |-> text, log |-> Append(log, req)]
    ELSE [out |-> Strip(ServiceText(req, orc)), log |-> Append(log, req)]

\* the text stripped where the source is the target
gemini_translate_stripped(text, src_lang_code, tgt_lang_code, temp, log, orc) ==
    IF ~gemini_client THEN [out |-> text, log |-> log]
    ELSE IF text = <<>> \/ Strip(text) = <<>> THEN [out |-> <<>>, log |-> log]
    ELSE
    LET effective_src_lang_code ==
            IF src_lang_code \in LangCodeValues THEN src_lang_code ELSE "auto"
        effective_tgt_lang_code ==
            IF tgt_lang_code \in LangCodeValues THEN tgt_lang_code ELSE "en"
    IN  IF effective_src_lang_code # "auto"
           /\ effective_src_lang_code = effective_tgt_lang_code
        THEN [out |-> Strip(text), log |-> log]
        ELSE translate_request(
                 text,
                 [api |-> "generate_content",
                  prompt |-> translate_prompt(text, effective_src_lang_code,
                                              effective_tgt_lang_code),
                  history |-> <<>>, temperature |-> temp],
                 log, orc)

\* only the empty text returned at once, a blank one sent to the service
gemini_translate_blank_sent(text, src_lang_code, tgt_lang_code, temp, log, orc) ==
    IF ~gemini_client THEN [out |-> text, log |-> log]
    ELSE IF text = <<>> THEN [out |-> <<>>, log |-> log]
    ELSE
    LET effective_src_lang_code ==
            IF src_lang_code \in LangCodeValues THEN src_lang_code ELSE "auto"
        effective_tgt_lang_code ==
            IF tgt_lang_code \in LangCodeValues THEN tgt_lang_code ELSE "en"
    IN  IF effective_src_lang_code # "auto"
           /\ effective_src_lang_code = effective_tgt_lang_code
        THEN [out |-> text, log |-> log]
        ELSE translate_request(
                 text,
                 [api |-> "generate_content",
                  prompt |-> translate_prompt(text, effective_src_lang_code,
                                              effective_tgt_lang_code),
                  history |-> <<>>, temperature |-> temp],
                 log, orc)

\* def gemini_translate(text, src_lang_code, tgt_lang_code, temp=0.1)
\* returns [out, log]
gemini_translate(text, src_lang_code, tgt_lang_code, temp, log, orc) ==
    IF ~gemini_client THEN [out |-> text, log |-> log]
    ELSE IF text = <<>> \/ Strip(text) = <<>> THEN [out |-> <<>>, log |-> log]
    ELSE
    LET effective_src_lang_code ==
            IF src_lang_code \in LangCodeValues THEN src_lang_code ELSE "auto"
        effective_tgt_lang_code ==
            IF tgt_lang_code \in LangCodeValues THEN tgt_lang_code ELSE "en"
    IN  IF effective_src_lang_code # "auto"
           /\ effective_src_lang_code = effective_tgt_lang_code
        THEN [out |-> text, log |-> log]
        ELSE translate_request(
                 text,
                 [api |-> "generate_content",
                  prompt |-> translate_prompt(text, effective_src_lang_code,
                                              effective_tgt_lang_code),
                  history |-> <<>>, temperature |-> temp],
                 log, orc)

\* get_gemini_response, lines 109-116: the text returned for exception e
completion_error(e, error_detail) ==
    IF Contains(error_detail, <<"4", "0", "1">>)
       \/ Contains(error_detail,
                   <<"u", "n", "a", "u", "t", "h", "o", "r", "i", "z", "e", "d">>)
    THEN <<"Error: Unauthorized. Check your API key. ">> \o e
    ELSE IF Contains(error_detail, <<"4", "2", "9">>)
            \/ Contains(error_detail, <<"q", "u", "o", "t", "a">>)
    THEN <<"Error: Rate limit exceeded. Try again later. ">> \o e
    ELSE <<"Error communicating with Gemini API: ">> \o e

\* get_gemini_response, lines 102-116: the request and its outcome
completion_request(req, log, orc) ==
    IF ~Fails(req, orc)
    THEN [out |-> ServiceText(req, orc), log |-> Append(log, req)]
    ELSE [out |-> completion_error(orc.err, Lower(orc.err)),
          log |-> Append(log, req)]

\* def get_gemini_response(prompt_text, chat_history=None, temp=0.7)
\* returns [out, log]
get_gemini_response(prompt_text, chat_history, temp, log, orc) ==
    IF ~gemini_client
    THEN [out |-> <<"Error: Gemini API not available. Cannot provide medical information.">>,
          log |-> log]
    ELSE IF chat_history # <<>>
    THEN completion_request(
             [api |-> "send_message", prompt |-> prompt_text,
              history |-> chat_history, temperature |-> "default"],
             log, orc)
    ELSE completion_request(
             [api |-> "generate_content", prompt |-> prompt_text,
              history |-> <<>>, temperature |-> temp],
             log, orc)

-----
(* The report assembler: the four regular expressions of process_chat       *)
(* (src/app.py:273-285 and, the same again, 433-445).                       *)

HDR_DIAGNOSIS ==
    <<"D", "i", "a", "g", "n", "o", "s", "i", "s", ":">>

HDR_DRUG ==
    <<"P", "r", "o", "p", "o", "s", "e", "d", " ", "N", "e", "w", " ",
      "D", "r", "u", "g", ":">>

HDR_DOSAGE ==
    <<"H", "y", "p", "o", "t", "h", "e", "t", "i", "c", "a", "l", " ",
      "D", "o", "s", "a", "g", "e", "/", "I", "n", "s", "t", "r", "u", "c",
      "t", "i", "o", "n", "s", ":">>

HDR_SAFETY ==
    <<"A", "l", "l", "e", "r", "g", "y", "/", "S", "a", "f", "e", "t", "y",
      " ", "N", "o", "t", "e", ":">>

NOT_FOUND == <<"N", "o", "t", " ", "f", "o", "u", "n", "d">>

\* the least element of a non-empty set of numbers
Min(S) == CHOOSE x \in S : \A y \in S : x <= y

\* re.IGNORECASE: the positions where pat matches, whatever the case, in the
\* text of which low is the lower case
MatchesCI(low, pat) ==
    LET lpat == Lower(pat)
    IN  {i \in 1..Len(low) : MatchAt(low, lpat, i)}

\* where $ matches without re.MULTILINE: at the end of the text and just
\* before a newline that ends it (positions are those of the next character)
DollarAt(s) ==
    {Len(s) + 1} \cup (IF Len(s) > 0 /\ s[Len(s)] = "\n" THEN {Len(s)} ELSE {})

\* the group of a greedy (.*): it runs to the end of the text
LazyGroup_greedy(s, from, stopsAt) == SubSeq(s, from, Len(s))

\* the lazy group (.*?) that starts at from: it ends at the first position
\* at or after from where a stop header or $ matches
LazyGroup(s, from, stopsAt) ==
    SubSeq(s, from,
           Min({p \in from..(Len(s) + 1) : p \in DollarAt(s) \cup stopsAt}) - 1)

\* the match at the leftmost header, if there is one
LazyMatch(s, header, heads, stopsAt) ==
    IF heads = {} THEN [found |-> FALSE, group1 |-> <<>>]
    ELSE [found |-> TRUE,
          group1 |-> LazyGroup(s, Min(heads) + Len(header), stopsAt)]

\* the positions in low where one of the headers matches
StopsIn(low, stops) == UNION {MatchesCI(low, t) : t \in stops}

\* re.search(header + r"(.*?)(?:" + "|".join(stops) + "|$)", s,
\*           re.DOTALL | re.IGNORECASE): [found, group1]
SearchLazy(s, low, header, stops) ==
    LazyMatch(s, header, MatchesCI(low, header), StopsIn(low, stops))

\* the greedy group (.*) after the leftmost header runs to the end of the text
GreedyMatch(s, header, heads) ==
    IF heads = {} THEN [found |-> FALSE, group1 |-> <<>>]
    ELSE [found |-> TRUE,
          group1 |-> SubSeq(s, Min(heads) + Len(header), Len(s))]

\* re.search(header + r"(.*)", s, re.DOTALL | re.IGNORECASE)
SearchGreedy(s, low, header) == GreedyMatch(s, header, MatchesCI(low, header))

\* low is full_response.lower(), which re.IGNORECASE compares
diagnosis_match(full_response, low) ==
    SearchLazy(full_response, low, HDR_DIAGNOSIS, {HDR_DRUG, HDR_DOSAGE, HDR_SAFETY})

drug_match(full_response, low) ==
    SearchLazy(full_response, low, HDR_DRUG, {HDR_DOSAGE, HDR_SAFETY})

dosage_match(full_response, low) ==
    SearchLazy(full_response, low, HDR_DOSAGE, {HDR_SAFETY})

safety_match(full_response, low) ==
    SearchGreedy(full_response, low, HDR_SAFETY)

\* m.group(1).strip() if m else "Not found"
\* the empty text for a header that is not there
GroupOrNotFound_empty(m) == IF m.found THEN Strip(m.group1) ELSE <<>>

GroupOrNotFound(m) == IF m.found THEN Strip(m.group1) ELSE NOT_FOUND

fields_of(full_response, low) ==
    [diagnosis    |-> GroupOrNotFound(diagnosis_match(full_response, low)),
     drug_concept |-> GroupOrNotFound(drug_match(full_response, low)),
     dosage       |-> GroupOrNotFound(dosage_match(full_response, low)),
     safety       |-> GroupOrNotFound(safety_match(full_response, low))]

\* the four fields: diagnosis, drug_concept, dosage, safety
extract_fields(full_response) == fields_of(full_response, Lower(full_response))

-----
(* The Session State and the dialogue sequencer.                           *)

CHAT_STAGE_ASK_LANGUAGE == "ask_language"

CHAT_STAGE_ASK_SYMPTOMS == "ask_symptoms"

CHAT_STAGE_ASK_ALLERGIES == "ask_allergies"

CHAT_STAGE_GENERATE_RESPONSE == "generate_response"

CHAT_STAGE_GENERAL_QNA == "general_qna"

\* def initialize_chat_state().  The dict has no "translated_summary" key;
\* the field is None here, which state.get("translated_summary", "") and
\* the truth test of generate_pdf_report treat like the missing key.
initialize_chat_state ==
    [stage |-> CHAT_STAGE_ASK_LANGUAGE,
     language |-> None,
     lang_code |-> NoCode,
     symptoms_user_lang |-> None,
     symptoms_en |-> None,
     allergies_user_lang |-> None,
     allergies_en |-> None,
     diagnosis_en |-> None,
     drug_concept_full_en |-> None,
     gemini_chat_history_manual |-> <<>>,
     translated_summary |-> None]

NL2 == <<"\n", "\n">>

\* gemini_translate applied to each text in turn, the log threaded through
translate_each_rest(first, rest) ==
    [outs |-> <<first.out>> \o rest.outs, log |-> rest.log]

RECURSIVE translate_each(_, _, _, _, _)
translate_each_from(first, texts, src, tgt, orc) ==
    translate_each_rest(first, translate_each(Tail(texts), src, tgt, first.log, orc))

translate_each(texts, src, tgt, log, orc) ==
    IF texts = <<>> THEN [outs |-> <<>>, log |-> log]
    ELSE translate_each_from(
             gemini_translate(Head(texts), src, tgt, "0.1", log, orc),
             texts, src, tgt, orc)

\* get_gemini_response(prompt) applied to each prompt in turn
RECURSIVE complete_each(_, _, _)
complete_each_from(first, prompts, orc) ==
    translate_each_rest(first, complete_each(Tail(prompts), first.log, orc))

complete_each(prompts, log, orc) ==
    IF prompts = <<>> THEN [outs |-> <<>>, log |-> log]
    ELSE complete_each_from(
             get_gemini_response(Head(prompts), <<>>, "0.7", log, orc),
             prompts, orc)

\* what a stage hands back to process_chat
StageResult(st, bot_response_en, bot_response_user_lang, english, translated, log) ==
    [state |-> st,
     bot_response_en |-> bot_response_en,
     bot_response_user_lang |-> bot_response_user_lang,
     english_summary |-> english,
     translated_summary |-> translated,
     log |-> log]

\* lines 288-306: the summaries rebuilt from the stored response; t holds the
\* translations of the four fields and of the six titles
previous_summary_text(st, f, t) ==
    [english_summary |->
         <<"**Symptoms:** ">> \o st.symptoms_en \o NL2
         \o <<"**Allergies:** ">> \o st.allergies_en \o NL2
         \o <<"**Diagnosis:** ">> \o f.diagnosis \o NL2
         \o <<"**Drug Concept:** ">> \o f.drug_concept \o NL2
         \o <<"**Dosage:** ">> \o f.dosage \o NL2
         \o <<"**Safety:** ">> \o f.safety \o NL2,
     translated_summary |->
         <<"**">> \o t.outs[5] \o <<":** ">> \o st.symptoms_user_lang \o NL2
         \o <<"**">> \o t.outs[6] \o <<":** ">> \o st.allergies_user_lang \o NL2
         \o <<"**">> \o t.outs[7] \o <<":** ">> \o t.outs[1] \o NL2
         \o <<"**">> \o t.outs[8] \o <<":** ">> \o t.outs[2] \o NL2
         \o <<"**">> \o t.outs[9] \o <<":** ">> \o t.outs[3] \o NL2
         \o <<"**">> \o t.outs[10] \o <<":** ">> \o t.outs[4] \o NL2,
     log |-> t.log]

\* lines 296-306: the ten translations, in the order of the calls
previous_summary_translate(st, f, user_lang_code, log, orc) ==
    previous_summary_text(st, f,
        translate_each(
            <<f.diagnosis, f.drug_concept, f.dosage, f.safety,
              <<"Symptoms">>, <<"Allergies">>, <<"Diagnosis">>,
              <<"Drug Concept">>, <<"Dosage">>, <<"Safety">> >>,
            "en", user_lang_code, log, orc))

\* process_chat, lines 264-306: the summaries a turn starts with
\* returns [english_summary, translated_summary, log]
previous_summary(st, user_lang_code, log, orc) ==
    IF ~Truthy(st.drug_concept_full_en)
    THEN [english_summary |-> <<"Report summary will appear here after diagnosis.">>,
          translated_summary |-> <<"Translated report summary will appear here.">>,
          log |-> log]
    ELSE previous_summary_translate(st, extract_fields(st.drug_concept_full_en),
                                    user_lang_code, log, orc)

\* ", ".join(sorted(LANG_CODES.keys())), kept as one symbol
AVAILABLE_LANGUAGES ==
    "Arabic, Bengali, Chinese, English, French, German, Hindi, Italian, Japanese, Kannada, Korean, Portuguese, Russian, Spanish, Tamil, Telugu, Thai, Turkish, Ukrainian, Vietnamese"

\* the reply to an unsupported language (line 339)
language_error(message) ==
    <<"Sorry, '">> \o message
    \o <<"' is not a supported language. Please select from: ", AVAILABLE_LANGUAGES>>

\* lines 319-321
welcome_message_en(selected_language) ==
    <<"Thank you. Your selected language is ">> \o selected_language \o <<".">>

next_prompt_en == <<"Please describe your symptoms.">>

\* the summary on display stored in the state when the language is chosen
language_accepted_summary(selected_language, st, s0, t) ==
    StageResult(
        [st EXCEPT
           !.language = selected_language,
           !.lang_code = LANG_CODES(selected_language),
           !.stage = CHAT_STAGE_ASK_SYMPTOMS,
           !.translated_summary = s0.translated_summary],
        welcome_message_en(selected_language) \o NL2 \o next_prompt_en,
        t.outs[1] \o NL2 \o t.outs[2],
        s0.english_summary, s0.translated_summary, t.log)

\* the language stored without its code
language_accepted_uncoded(selected_language, st, s0, t) ==
    StageResult(
        [st EXCEPT
           !.language = selected_language,
           !.stage = CHAT_STAGE_ASK_SYMPTOMS,
           !.gemini_chat_history_manual =
               @ \o << [role |-> "user",
                        text |-> <<"User selected language: ">> \o selected_language],
                       [role |-> "model",
                        text |-> welcome_message_en(selected_language) \o NL2
                                 \o next_prompt_en] >>],
        welcome_message_en(selected_language) \o NL2 \o next_prompt_en,
        t.outs[1] \o NL2 \o t.outs[2],
        s0.english_summary, s0.translated_summary, t.log)

\* lines 313-336; t holds the translations of the welcome and of the prompt
language_accepted(selected_language, st, s0, t) ==
    StageResult(
        [st EXCEPT
           !.language = selected_language,
           !.lang_code = LANG_CODES(selected_language),
           !.stage = CHAT_STAGE_ASK_SYMPTOMS,
           !.gemini_chat_history_manual =
               @ \o << [role |-> "user",
                        text |-> <<"User selected language: ">> \o selected_language],
                       [role |-> "model",
                        text |-> welcome_message_en(selected_language) \o NL2
                                 \o next_prompt_en] >>],
        welcome_message_en(selected_language) \o NL2 \o next_prompt_en,
        t.outs[1] \o NL2 \o t.outs[2],
        s0.english_summary, s0.translated_summary, t.log)

\* lines 312-342
language_selected(selected_language, message, st, s0, log, orc) ==
    IF selected_language \in LangNames
    THEN language_accepted(selected_language, st, s0,
             translate_each(<<welcome_message_en(selected_language), next_prompt_en>>,
                            "en", LANG_CODES(selected_language), log, orc))
    ELSE StageResult(st, language_error(message), language_error(message),
                     s0.english_summary, s0.translated_summary, log)

\* process_chat, lines 309-342
stage_ask_language(message, st, s0, log, orc) ==
    language_selected(Title(Strip(message)), message, st, s0, log, orc)

\* the "Language not set" branch of lines 345-348 and 371-374
language_not_set(s0, log) ==
    StageResult(initialize_chat_state,
                <<"Error: Language not set. Please start over.">>,
                <<"Error: Language not set. Please start over.">>,
                s0.english_summary, s0.translated_summary, log)

\* the reply to a blank message recorded in the turn history
symptoms_rejected_recorded(st, s0, bot_response_en, t) ==
    StageResult(
        [st EXCEPT !.gemini_chat_history_manual =
                       Append(@, [role |-> "model", text |-> bot_response_en])],
        bot_response_en, t.out,
        s0.english_summary, s0.translated_summary, t.log)

\* lines 349-351; t is the translation of the reply
symptoms_rejected(st, s0, bot_response_en, t) ==
    StageResult(st, bot_response_en, t.out,
                s0.english_summary, s0.translated_summary, t.log)

\* the language code set to English along with the English symptoms
symptoms_accepted_english(message, user_message_en, st, s0, bot_response_en, t) ==
    StageResult(
        [st EXCEPT
           !.symptoms_user_lang = Strip(message),
           !.symptoms_en = user_message_en,
           !.lang_code = "en",
           !.stage = CHAT_STAGE_ASK_ALLERGIES],
        bot_response_en, t.out,
        s0.english_summary, s0.translated_summary, t.log)

\* both forms of the symptoms trimmed
symptoms_accepted_trimmed(message, user_message_en, st, s0, bot_response_en, t) ==
    StageResult(
        [st EXCEPT
           !.symptoms_user_lang = Strip(message),
           !.symptoms_en = Strip(user_message_en),
           !.stage = CHAT_STAGE_ASK_ALLERGIES,
           !.gemini_chat_history_manual =
               @ \o << [role |-> "user",
                        text |-> <<"Symptoms: ">> \o user_message_en],
                       [role |-> "model", text |-> bot_response_en] >>],
        bot_response_en, t.out,
        s0.english_summary, s0.translated_summary, t.log)

\* lines 352-368; t is the translation of the reply
symptoms_accepted(message, user_message_en, st, s0, bot_response_en, t) ==
    StageResult(
        [st EXCEPT
           !.symptoms_user_lang = Strip(message),
           !.symptoms_en = user_message_en,
           !.stage = CHAT_STAGE_ASK_ALLERGIES,
           !.gemini_chat_history_manual =
               @ \o << [role |-> "user",
                        text |-> <<"Symptoms: ">> \o user_message_en],
                       [role |-> "model", text |-> bot_response_en] >>],
        bot_response_en, t.out,
        s0.english_summary, s0.translated_summary, t.log)

ASK_AGAIN == <<"Please describe your symptoms so I can assist you.">>

ASK_ALLERGIES ==
    <<"Thank you for sharing your symptoms. Do you have any known allergies? If none, please say 'None'.">>

\* process_chat, lines 344-368
stage_ask_symptoms(message, user_message_en, user_lang_code, st, s0, log, orc) ==
    IF user_lang_code = NoCode THEN language_not_set(s0, log)
    ELSE IF Strip(message) = <<>>
    THEN symptoms_rejected(st, s0, ASK_AGAIN,
             gemini_translate(ASK_AGAIN, "en", user_lang_code, "0.1", log, orc))
    ELSE symptoms_accepted(message, user_message_en, st, s0, ASK_ALLERGIES,
             gemini_translate(ASK_ALLERGIES, "en", user_lang_code, "0.1", log, orc))

\* the diagnosis prompt (lines 403-417)
diagnosis_prompt(symptoms, allergies) ==
    <<DIAG_PROMPT_HEAD, "\n", "Symptoms: ">> \o symptoms
    \o <<"\n", "Allergies: ">> \o allergies
    \o <<"\n", "Format your response with these exact headings:", "\n">>
    \o HDR_DIAGNOSIS \o <<"\n">> \o HDR_DRUG \o <<"\n">>
    \o HDR_DOSAGE \o <<"\n">> \o HDR_SAFETY \o <<"\n">>

\* lines 448-451
simplify_prompts(f) ==
    << <<"Simplify this medical diagnosis into 2-3 short bullet points: ">>
           \o f.diagnosis,
       <<"Simplify this drug concept into 2-3 short bullet points about what it is and how it works: ">>
           \o f.drug_concept,
       <<"Simplify this dosage information into 2-3 short bullet points about dosage amount, frequency, and how to take it: ">>
           \o f.dosage,
       <<"Simplify this safety information into 2-3 short bullet points about allergies and side effects: ">>
           \o f.safety >>

\* lines 480-485; t holds the translations of the six titles and of the
\* four simplified fields
allergies_summary(st, t) ==
    <<"### ">> \o t.outs[1] \o <<":", "\n">> \o st.symptoms_user_lang \o NL2
    \o <<"### ">> \o t.outs[2] \o <<":", "\n">> \o st.allergies_user_lang \o NL2
    \o <<"### ">> \o t.outs[3] \o <<":", "\n">> \o t.outs[7] \o NL2
    \o <<"### ">> \o t.outs[4] \o <<":", "\n">> \o t.outs[8] \o NL2
    \o <<"### ">> \o t.outs[5] \o <<":", "\n">> \o t.outs[9] \o NL2
    \o <<"### ">> \o t.outs[6] \o <<":", "\n">> \o t.outs[10] \o NL2

\* lines 459-464
allergies_english_summary(st, simplified) ==
    <<"**Symptoms:** ">> \o st.symptoms_en \o NL2
    \o <<"**Allergies:** ">> \o st.allergies_en \o NL2
    \o <<"**Diagnosis:** ">> \o simplified[1] \o NL2
    \o <<"**Medicine:** ">> \o simplified[2] \o NL2
    \o <<"**Dosage:** ">> \o simplified[3] \o NL2
    \o <<"**Safety Notes:** ">> \o simplified[4] \o NL2

\* lines 458-488: the summaries and the state the turn ends with
allergies_result(st2, diagnosis_response, bot_user, simplified, t) ==
    StageResult(
        [st2 EXCEPT !.translated_summary = allergies_summary(st2, t)],
        diagnosis_response, bot_user,
        allergies_english_summary(st2, simplified),
        allergies_summary(st2, t),
        t.log)

\* lines 466-477: the translations of the titles, then of the simplified fields
allergies_translate(st2, user_lang_code, diagnosis_response, bot_user, simplified, orc) ==
    allergies_result(st2, diagnosis_response, bot_user, simplified.outs,
        translate_each(
            << <<"Symptoms">>, <<"Allergies">>, <<"Diagnosis">>,
               <<"Medicine">>, <<"Dosage">>, <<"Safety Notes">>,
               simplified.outs[1], simplified.outs[2],
               simplified.outs[3], simplified.outs[4] >>,
            "en", user_lang_code, simplified.log, orc))

\* the response itself simplified four times, with no extraction
allergies_simplify_whole(st2, user_lang_code, diagnosis_response, bot_user, orc) ==
    allergies_translate(st2, user_lang_code, diagnosis_response, bot_user.out,
        complete_each(
            simplify_prompts([diagnosis |-> diagnosis_response,
                              drug_concept |-> diagnosis_response,
                              dosage |-> diagnosis_response,
                              safety |-> diagnosis_response]),
            bot_user.log, orc),
        orc)

\* lines 432-456: the fields of the response, each simplified by a completion
allergies_simplify(st2, user_lang_code, diagnosis_response, bot_user, orc) ==
    allergies_translate(st2, user_lang_code, diagnosis_response, bot_user.out,
        complete_each(simplify_prompts(extract_fields(diagnosis_response)),
                      bot_user.log, orc),
        orc)

\* the response stored and the stage left at GenerateResponse
allergies_reply_pending(st1, user_lang_code, d, orc) ==
    allergies_simplify(
        [st1 EXCEPT
           !.drug_concept_full_en = d.out,
           !.gemini_chat_history_manual =
               Append(@, [role |-> "model", text |-> d.out])],
        user_lang_code, d.out,
        gemini_translate(d.out, "en", user_lang_code, "0.1", d.log, orc),
        orc)

\* lines 420-430: the response stored, the stage moved on, the reply translated
allergies_reply(st1, user_lang_code, d, orc) ==
    allergies_simplify(
        [st1 EXCEPT
           !.drug_concept_full_en = d.out,
           !.stage = CHAT_STAGE_GENERAL_QNA,
           !.gemini_chat_history_manual =
               Append(@, [role |-> "model", text |-> d.out])],
        user_lang_code, d.out,
        gemini_translate(d.out, "en", user_lang_code, "0.1", d.log, orc),
        orc)

\* lines 399-419: the diagnosis request
allergies_diagnose(st1, user_lang_code, processing, orc) ==
    allergies_reply(st1, user_lang_code,
        get_gemini_response(diagnosis_prompt(st1.symptoms_en, st1.allergies_en),
                            <<>>, "0.7", processing.log, orc),
        orc)

PROCESSING_ALLERGIES ==
    <<"Thank you. I'm analyzing your symptoms and allergies to generate a diagnosis and drug concept. This may take a moment...">>

\* process_chat, lines 370-488
stage_ask_allergies(message, user_message_en, user_lang_code, st, s0, log, orc) ==
    IF user_lang_code = NoCode THEN language_not_set(s0, log)
    ELSE allergies_diagnose(
             [st EXCEPT
                !.allergies_user_lang = Strip(message),
                !.allergies_en = user_message_en,
                !.stage = CHAT_STAGE_GENERATE_RESPONSE,
                !.gemini_chat_history_manual =
                    Append(@, [role |-> "user",
                               text |-> <<"Allergies: ">> \o user_message_en])],
             user_lang_code,
             gemini_translate(PROCESSING_ALLERGIES, "en", user_lang_code, "0.1",
                              log, orc),
             orc)

\* lines 511-519
qna_context(st, user_message_en) ==
    <<"Previous symptoms: ">> \o st.symptoms_en
    \o <<"\n", "Previous allergies: ">> \o st.allergies_en
    \o <<"\n", "Previous diagnosis and drug concept: ">> \o st.drug_concept_full_en
    \o <<"\n", "\n", "User question: ">> \o user_message_en
    \o <<"\n", "\n",
         "Respond in a clear, concise way that would be easy to translate to another language.",
         "\n">>

\* the stage put back to the allergies after a question
qna_result_back(st, user_message_en, s0, qna_response, t) ==
    StageResult(
        [st EXCEPT !.stage = CHAT_STAGE_ASK_ALLERGIES],
        qna_response, t.out,
        s0.english_summary, s0.translated_summary, t.log)

\* the returned summary stored in the state after a question
qna_result_stored(st, user_message_en, s0, qna_response, t) ==
    StageResult(
        [st EXCEPT
           !.gemini_chat_history_manual =
               @ \o << [role |-> "user", text |-> user_message_en],
                       [role |-> "model", text |-> qna_response] >>,
           !.translated_summary = s0.translated_summary],
        qna_response, t.out,
        s0.english_summary, s0.translated_summary, t.log)

\* the answer recorded before the question
qna_result_swapped(st, user_message_en, s0, qna_response, t) ==
    StageResult(
        [st EXCEPT
           !.gemini_chat_history_manual =
               @ \o << [role |-> "model", text |-> qna_response],
                       [role |-> "user", text |-> user_message_en] >>],
        qna_response, t.out,
        s0.english_summary, s0.translated_summary, t.log)

\* lines 523-530; t is the translation of the reply
qna_result(st, user_message_en, s0, qna_response, t) ==
    StageResult(
        [st EXCEPT
           !.gemini_chat_history_manual =
               @ \o << [role |-> "user", text |-> user_message_en],
                       [role |-> "model", text |-> qna_response] >>],
        qna_response, t.out,
        s0.english_summary, s0.translated_summary, t.log)

\* a failed completion treated as fatal: the session reset
qna_reply_fatal(st, user_message_en, user_lang_code, s0, q, orc) ==
    IF q.out # <<>> /\ q.out[1] \in {"Error: Unauthorized. Check your API key. ",
                                     "Error: Rate limit exceeded. Try again later. "}
    THEN StageResult(initialize_chat_state, q.out, q.out,
                     s0.english_summary, s0.translated_summary, q.log)
    ELSE qna_result(st, user_message_en, s0, q.out,
                    gemini_translate(q.out, "en", user_lang_code, "0.1", q.log, orc))

\* lines 521-524
qna_reply(st, user_message_en, user_lang_code, s0, q, orc) ==
    qna_result(st, user_message_en, s0, q.out,
               gemini_translate(q.out, "en", user_lang_code, "0.1", q.log, orc))

\* lines 510-521
qna_ask(st, user_message_en, user_lang_code, s0, processing, orc) ==
    qna_reply(st, user_message_en, user_lang_code, s0,
              get_gemini_response(qna_context(st, user_message_en), <<>>, "0.7",
                                  processing.log, orc),
              orc)

\* process_chat, lines 490-530
stage_general_qna(message, user_message_en, user_lang_code, st, s0, log, orc) ==
    qna_ask(st, user_message_en, user_lang_code, s0,
            gemini_translate(<<"I'm thinking about your question...">>,
                             "en", user_lang_code, "0.1", log, orc),
            orc)

\* lines 532-542: the bot's reply put in the pair appended at line 250
process_chat_return(message, hist, r) ==
    [history |-> Append(hist, <<message, r.bot_response_user_lang>>),
     english_summary |-> r.english_summary,
     translated_summary |-> r.translated_summary,
     state |-> r.state,
     log |-> r.log]

\* lines 308-530: the stage's branch
process_chat_stage(message, user_message_en, st, s0, orc) ==
    IF st.stage = CHAT_STAGE_ASK_LANGUAGE
    THEN stage_ask_language(message, st, s0, s0.log, orc)
    ELSE IF st.stage = CHAT_STAGE_ASK_SYMPTOMS
    THEN stage_ask_symptoms(message, user_message_en, st.lang_code, st, s0, s0.log, orc)
    ELSE IF st.stage = CHAT_STAGE_ASK_ALLERGIES
    THEN stage_ask_allergies(message, user_message_en, st.lang_code, st, s0, s0.log, orc)
    ELSE IF st.stage = CHAT_STAGE_GENERAL_QNA
    THEN stage_general_qna(message, user_message_en, st.lang_code, st, s0, s0.log, orc)
    ELSE StageResult(st, <<>>, <<>>, s0.english_summary, s0.translated_summary, s0.log)

\* lines 264-306, then the stage
process_chat_summary(message, hist, st, m, orc) ==
    process_chat_return(message, hist,
        process_chat_stage(message, m.out, st,
                           previous_summary(st, st.lang_code, m.log, orc), orc))

\* the try block of process_chat for a message that is a str, with lines
\* 253-259
process_chat_try(message, hist, st, orc) ==
    process_chat_summary(message, hist, st,
        IF st.lang_code # "en" /\ st.lang_code # NoCode /\ Strip(message) # <<>>
        THEN gemini_translate(message, st.lang_code, "en", "0.1", <<>>, orc)
        ELSE [out |-> message, log |-> <<>>],
        orc)

\* str(e) of the AttributeError that message.strip() raises when the message
\* is None and not a str
STRIP_OF_NONE == "'NoneType' object has no attribute 'strip'"

\* whether the try block calls message.strip() on a message that is None:
\* at line 258 when the language is set and is not English, at line 310 in
\* stage AskLanguage, at lines 349 and 376 in stages AskSymptoms and
\* AskAllergies when the language is set; stage GeneralQnA does not call it
StripRaises(message, st) ==
    /\ message = None
    /\ \/ st.lang_code # "en" /\ st.lang_code # NoCode
       \/ st.stage = CHAT_STAGE_ASK_LANGUAGE
       \/ /\ st.stage \in {CHAT_STAGE_ASK_SYMPTOMS, CHAT_STAGE_ASK_ALLERGIES}
          /\ st.lang_code # NoCode

\* line 546
error_message(e) ==
    <<"An error occurred: ", e, ". Please try again or restart the conversation.">>

\* the bot message of the pair left as line 250 put it
process_chat_except_silent(message, hist, e) ==
    [history |-> Append(hist, <<message, <<>> >>),
     english_summary |-> <<"Error: ">> \o error_message(e),
     translated_summary |-> <<"Error: ">> \o error_message(e),
     state |-> initialize_chat_state,
     log |-> <<>>]

\* the except branch of process_chat, lines 544-557, for exception e: no
\* request has been sent when message.strip() raises
process_chat_except(message, hist, e) ==
    [history |-> Append(hist, <<message, error_message(e)>>),
     english_summary |-> <<"Error: ">> \o error_message(e),
     translated_summary |-> <<"Error: ">> \o error_message(e),
     state |-> initialize_chat_state,
     log |-> <<>>]

\* def process_chat(message, history, state)
\* returns [history, english_summary, translated_summary, state, log]
process_chat(message, hist, st, orc) ==
    IF StripRaises(message, st)
    THEN process_chat_except(message, hist, STRIP_OF_NONE)
    ELSE process_chat_try(message, hist, st, orc)

-----
(* The report export (src/app.py:148-219).  The file's pages are not       *)
(* modelled, only whether a file is produced.                              *)

\* the Python value None where a path is expected
NoPath == "None"

pdf_output_path == "./pharma_gpt_report.pdf"

\* an export that does not look at the summary
generate_pdf_report_unchecked(chat_state, written) ==
    IF written THEN pdf_output_path ELSE NoPath

\* def generate_pdf_report(chat_state); written: FALSE when building or
\* saving the file raises (lines 161-219), which the handler turns into None
generate_pdf_report(chat_state, written) ==
    IF ~Truthy(chat_state.translated_summary)
    THEN NoPath
    ELSE IF written THEN pdf_output_path ELSE NoPath

-----
(* The session: the interface's event handlers over one Session State.     *)

\* turns of one conversation the model follows
MaxTurns == 4

\* what the user types in a stage: names of languages in some case and
\* with white space around, the empty and a blank text, words with and
\* without white space around, the word None; None itself is the message
\* of a request that carries no text
Messages(stage) ==
    IF stage = CHAT_STAGE_ASK_LANGUAGE
    THEN { <<"e", "N", "G", "l", "i", "s", "h">>,
           <<" ", "f", "r", "e", "n", "c", "h", "\n">>,
           <<" ">>,
           <<"f", "l", "u", " ">>,
           None }
    ELSE IF stage = CHAT_STAGE_ASK_SYMPTOMS
    THEN { <<>>, <<" ">>, <<"f", "l", "u", " ">>, <<"f", "l", "u">>, None }
    ELSE IF stage = CHAT_STAGE_ASK_ALLERGIES
    THEN { <<>>, <<"N", "o", "n", "e">>, <<"f", "l", "u", " ">>, None }
    ELSE { <<" ">>, <<"f", "l", "u", " ">>, None }

\* str(e) of the exceptions the service raises
Errs ==
    { <<"4", "0", "1", " ", "k", "e", "y">>,
      <<"Q", "u", "o", "t", "a">> }

DefaultErr == <<"Q", "u", "o", "t", "a">>

\* a reply with the four headers
FullReply ==
    HDR_DIAGNOSIS \o <<" ", "f", "l", "u", "\n">>
    \o HDR_DRUG \o <<" ", "X", "q", "\n">>
    \o HDR_DOSAGE \o <<" ", "2", "/", "d", "\n">>
    \o HDR_SAFETY \o <<" ", "o", "k", "\n">>

\* a reply without the dosage header, in another case
PartReply ==
    Lower(HDR_DIAGNOSIS) \o <<" ", "f", "l", "u", "\n">>
    \o HDR_DRUG \o <<" ", "X", "q", "\n">>
    \o HDR_SAFETY \o <<" ", "o", "k">>

\* what the service answers to the diagnosis prompt
DiagReplies == {FullReply, PartReply}

\* the service answering every request
NoFailure == [fail |-> {}, err |-> DefaultErr, diag |-> FullReply]

\* the classes of the requests a stage's branch of process_chat issues
StageClasses(stage) ==
    IF stage = CHAT_STAGE_ASK_ALLERGIES THEN {"translate", "diagnose", "complete"}
    ELSE IF stage = CHAT_STAGE_GENERAL_QNA THEN {"translate", "complete"}
    ELSE {"translate"}

\* the ways the service answers the requests of one handler: it fails the
\* requests of some classes and answers the others; the error text matters
\* where a completion fails, the diagnosis where the diagnosis is answered
Oracles(stage) ==
    IF ~gemini_client THEN {NoFailure}
    ELSE { [fail |-> f, err |-> e, diag |-> d] :
             f \in SUBSET StageClasses(stage), e \in Errs, d \in DiagReplies }
         \ { orc \in [fail : SUBSET StageClasses(stage), err : Errs, diag : DiagReplies] :
               \/ orc.fail \subseteq {"translate"} /\ orc.err # DefaultErr
               \/ "diagnose" \notin (StageClasses(stage) \ orc.fail)
                  /\ orc.diag # FullReply }

NoCall == [fn |-> "none"]

NoResult == [done |-> FALSE]

Init ==
    /\ gemini_client \in BOOLEAN
    /\ state = initialize_chat_state
    /\ history = <<>>
    /\ english_summary = <<>>
    /\ translated_summary =
           <<"Your report will appear here after diagnosis in your chosen language.">>
    /\ requests = <<>>
    /\ args = NoCall
    /\ ret = NoResult

\* send_btn.click and txt.submit: process_chat on the textbox's text
SendResult(r) ==
    /\ history' = r.history
    /\ english_summary' = r.english_summary
    /\ translated_summary' = r.translated_summary
    /\ state' = r.state
    /\ requests' = r.log

Send ==
    /\ Len(history) < MaxTurns
    /\ \E message \in Messages(state.stage), orc \in Oracles(state.stage) :
           SendResult(process_chat(message, history, state, orc))
    /\ UNCHANGED <<gemini_client, args, ret>>

\* clear_btn.click
Clear ==
    /\ history' = <<>>
    /\ english_summary' = <<>>
    /\ translated_summary' =
           <<"Your report will appear here after diagnosis in your chosen language.">>
    /\ state' = initialize_chat_state
    /\ requests' = <<>>
    /\ UNCHANGED <<gemini_client, args, ret>>

Next == Send \/ Clear

Spec == Init /\ [][Next]_vars

\* download_btn.click: generate_pdf_report on the Session State, its result
\* shown by the file component
Download ==
    /\ \E written \in BOOLEAN :
           ret' = [done |-> TRUE, out |-> generate_pdf_report(state, written)]
    /\ UNCHANGED <<gemini_client, state, history, english_summary,
                   translated_summary, requests, args>>

NextExport == Send \/ Clear \/ Download

\* the session with the export button
SpecExport == Init /\ [][NextExport]_vars

-----
(* The follow-up questions: sessions that have their diagnosis, each asked *)
(* a bounded number of questions.                                          *)

\* questions asked of one diagnosed session
MaxQuestions == 2

\* the languages of the sessions followed
SessionLanguages ==
    { <<"E", "n", "g", "l", "i", "s", "h">>, <<"F", "r", "e", "n", "c", "h">> }

\* what the user types on the way to GeneralQnA: a language, the symptoms,
\* the allergies
PrepareMessages(stage) ==
    IF stage = CHAT_STAGE_ASK_LANGUAGE THEN SessionLanguages
    ELSE IF stage = CHAT_STAGE_ASK_SYMPTOMS THEN { <<"f", "l", "u">> }
    ELSE { <<"N", "o", "n", "e">> }

\* the service on the way to GeneralQnA: it answers, but for the diagnosis,
\* which is answered or fails for want of quota
PrepareOracles(stage) ==
    IF stage = CHAT_STAGE_ASK_ALLERGIES
    THEN { NoFailure, [fail |-> {"diagnose"}, err |-> DefaultErr, diag |-> FullReply] }
    ELSE { NoFailure }

\* send_btn.click and txt.submit before GeneralQnA
Prepare ==
    /\ state.stage # CHAT_STAGE_GENERAL_QNA
    /\ Len(history) < 3
    /\ \E message \in PrepareMessages(state.stage),
          orc \in PrepareOracles(state.stage) :
           SendResult(process_chat(message, history, state, orc))
    /\ UNCHANGED <<gemini_client, args, ret>>

\* send_btn.click and txt.submit in GeneralQnA
Ask ==
    /\ state.stage = CHAT_STAGE_GENERAL_QNA
    /\ Len(history) < 3 + MaxQuestions
    /\ \E message \in Messages(state.stage), orc \in Oracles(state.stage) :
           SendResult(process_chat(message, history, state, orc))
    /\ UNCHANGED <<gemini_client, args, ret>>

NextQnA == Prepare \/ Ask

SpecQnA == Init /\ [][NextQnA]_vars

-----
(* gemini_translate on its own: the arguments are drawn at the start and   *)
(* one call is made.                                                        *)

\* the texts handed to gemini_translate: empty, blank, plain, padded
TranslateTexts ==
    { <<>>, <<" ">>, <<"\n", " ", "\t">>, <<"h", "i">>, <<" ", "h", "i", " ">> }

\* the language codes handed to it: two supported, one unsupported, None
TranslateCodes == {"en", "fr", "xx", NoCode}

\* the service fails the request or answers it
TranslateOracles ==
    IF ~gemini_client THEN {NoFailure}
    ELSE {NoFailure, [fail |-> {"translate"}, err |-> DefaultErr, diag |-> FullReply]}

InitTranslate ==
    /\ gemini_client \in BOOLEAN
    /\ state = initialize_chat_state
    /\ history = <<>>
    /\ english_summary = <<>>
    /\ translated_summary =
           <<"Your report will appear here after diagnosis in your chosen language.">>
    /\ requests = <<>>
    /\ args \in [fn : {"gemini_translate"}, text : TranslateTexts,
                 src_lang_code : TranslateCodes, tgt_lang_code : TranslateCodes,
                 orc : TranslateOracles]
    /\ ret = NoResult

Return(r) ==
    /\ ret' = [done |-> TRUE, out |-> r.out]
    /\ requests' = r.log

CallTranslate ==
    /\ args.fn = "gemini_translate"
    /\ ~ret.done
    /\ Return(gemini_translate(args.text, args.src_lang_code, args.tgt_lang_code,
                               "0.1", <<>>, args.orc))
    /\ UNCHANGED <<gemini_client, state, history, english_summary,
                   translated_summary, args>>

NextTranslate == CallTranslate

SpecTranslate == InitTranslate /\ [][NextTranslate]_vars

-----
(* The field extraction on its own: a response is put together from a      *)
(* preamble and four sections, each with or without its header, and the    *)
(* extraction is applied to it.                                             *)

HEADERS == <<HDR_DIAGNOSIS, HDR_DRUG, HDR_DOSAGE, HDR_SAFETY>>

\* the word of each section
SectionWords ==
    << <<"f", "l", "u">>, <<"X", "q", " ", "9">>, <<"2", "/", "d">>, <<"o", "k">> >>

\* the text after a header: the word on the header's line, nothing, the word
\* with no white space around it, the word on lines of its own
SectionStyles == {"line", "empty", "tight", "block"}

SectionText(k, style) ==
    IF style = "line" THEN <<" ">> \o SectionWords[k] \o <<"\n">>
    ELSE IF style = "empty" THEN <<>>
    ELSE IF style = "tight" THEN SectionWords[k]
    ELSE <<"\n", " ">> \o SectionWords[k] \o <<" ", "\n", "\n">>

\* what precedes the first section
Preambles == { <<>>, <<"S", "u", "r", "e", ".", "\n">> }

\* section k of the response a: its header, if it has one, as written or in
\* lower case, and its text
Section(a, k) ==
    (IF k \in a.present
     THEN (IF a.lower THEN Lower(HEADERS[k]) ELSE HEADERS[k])
     ELSE <<>>)
    \o SectionText(k, a.styles[k])

Response(a) ==
    a.pre \o Section(a, 1) \o Section(a, 2) \o Section(a, 3) \o Section(a, 4)

InitExtract ==
    /\ gemini_client = TRUE
    /\ state = initialize_chat_state
    /\ history = <<>>
    /\ english_summary = <<>>
    /\ translated_summary =
           <<"Your report will appear here after diagnosis in your chosen language.">>
    /\ requests = <<>>
    /\ args \in [fn : {"extract_fields"}, pre : Preambles,
                 present : SUBSET (1..4), lower : BOOLEAN,
                 styles : [1..4 -> SectionStyles]]
    /\ ret = NoResult

CallExtract ==
    /\ args.fn = "extract_fields"
    /\ ~ret.done
    /\ ret' = [done |-> TRUE, out |-> extract_fields(Response(args))]
    /\ UNCHANGED <<gemini_client, state, history, english_summary,
                   translated_summary, requests, args>>

NextExtract == CallExtract

SpecExtract == InitExtract /\ [][NextExtract]_vars

-----
(* The first turn on its own: the user types the name of a supported       *)
(* language in some capitalization.                                         *)

\* the name written with each choice of upper and lower case letters
Capitalizations(name) ==
    { <<>> \o [i \in 1..Len(name) |->
                  IF m[i] THEN ToUpper(name[i]) ELSE ToLower(name[i])] :
        m \in [1..Len(name) -> BOOLEAN] }

InitLang ==
    /\ gemini_client \in BOOLEAN
    /\ state = initialize_chat_state
    /\ history = <<>>
    /\ english_summary = <<>>
    /\ translated_summary =
           <<"Your report will appear here after diagnosis in your chosen language.">>
    /\ requests = <<>>
    /\ \E name \in LangNames :
         \E message \in Capitalizations(name), orc \in Oracles(CHAT_STAGE_ASK_LANGUAGE) :
             args = [fn |-> "process_chat", name |-> name, message |-> message,
                     orc |-> orc]
    /\ ret = NoResult

SendLanguage ==
    /\ args.fn = "process_chat"
    /\ ~ret.done
    /\ SendResult(process_chat(args.message, history, state, args.orc))
    /\ ret' = [done |-> TRUE]
    /\ UNCHANGED <<gemini_client, args>>

NextLang == SendLanguage

SpecLang == InitLang /\ [][NextLang]_vars

-----
(* Properties of the session.                                               *)

\* the order of the stages
StageRank(stage) ==
    CASE stage = CHAT_STAGE_ASK_LANGUAGE -> 1
      [] stage = CHAT_STAGE_ASK_SYMPTOMS -> 2
      [] stage = CHAT_STAGE_ASK_ALLERGIES -> 3
      [] stage = CHAT_STAGE_GENERATE_RESPONSE -> 4
      [] stage = CHAT_STAGE_GENERAL_QNA -> 5

\* a step of process_chat: the chat grows by the turn's pair
TurnStep == Len(history') = Len(history) + 1

\* what the user typed in the turn of a TurnStep, and the reply to it
TurnMessage == history'[Len(history')][1]

TurnReply == history'[Len(history')][2]

\* the message names a supported language, in whatever case
NamesLanguage(message) ==
    \E name \in LangNames : Lower(Strip(message)) = Lower(name)

\* the stage before and after a turn: a stage stays or moves to the next
\* one, the allergies' turn passing through GenerateResponse to GeneralQnA
ForwardMoves ==
    { <<CHAT_STAGE_ASK_LANGUAGE, CHAT_STAGE_ASK_LANGUAGE>>,
      <<CHAT_STAGE_ASK_LANGUAGE, CHAT_STAGE_ASK_SYMPTOMS>>,
      <<CHAT_STAGE_ASK_SYMPTOMS, CHAT_STAGE_ASK_SYMPTOMS>>,
      <<CHAT_STAGE_ASK_SYMPTOMS, CHAT_STAGE_ASK_ALLERGIES>>,
      <<CHAT_STAGE_ASK_ALLERGIES, CHAT_STAGE_GENERAL_QNA>>,
      <<CHAT_STAGE_GENERAL_QNA, CHAT_STAGE_GENERAL_QNA>> }

\* the turn of a TurnStep raised an exception: its reply is the error message
TurnRaised ==
    /\ TurnReply # <<>>
    /\ TurnReply[1] = "An error occurred: "

\* C1 as stated: over turns and resets the stage only moves forward in the
\* order AskLanguage, AskSymptoms, AskAllergies, GenerateResponse, GeneralQnA
\* and never backward; a step that is not a turn is the explicit reset, which
\* puts the stage back to AskLanguage with every other field cleared
C1_StageOnlyForward ==
    [][ /\ TurnStep =>
             /\ <<state.stage, state'.stage>> \in ForwardMoves
             /\ StageRank(state'.stage) >= StageRank(state.stage)
        /\ ~TurnStep => state' = initialize_chat_state ]_vars

\* C1, amended: the stage only moves forward in that order and never
\* backward, except on the explicit reset and on the reset of a turn that
\* raised an exception, both of which put the stage back to AskLanguage with
\* every other field cleared
C1_StageForwardOrReset ==
    [][ /\ (TurnStep /\ ~TurnRaised) =>
             /\ <<state.stage, state'.stage>> \in ForwardMoves
             /\ StageRank(state'.stage) >= StageRank(state.stage)
        /\ (TurnStep /\ TurnRaised) => state' = initialize_chat_state
        /\ ~TurnStep => state' = initialize_chat_state ]_vars

\* English chosen, then a turn that raised: the session is back at the start
C1_Witness ==
    /\ Len(history) = 2
    /\ history[1][2][1] = "Thank you. Your selected language is "
    /\ history[2][2] = error_message(STRIP_OF_NONE)
    /\ state = initialize_chat_state

\* C3: a rejected turn (a message that names no supported language in stage
\* AskLanguage, a blank message in stage AskSymptoms) leaves the stage and
\* every other field of the session state as they were, and the reply to
\* the unsupported language is the list of languages, not translated
C3_RejectedTurnChangesNothing ==
    [][ TurnStep =>
          /\ ( /\ state.stage = CHAT_STAGE_ASK_LANGUAGE
               /\ TurnMessage # None
               /\ ~NamesLanguage(TurnMessage) )
               => /\ state' = state
                  /\ TurnReply = <<"Sorry, '">> \o TurnMessage
                         \o <<"' is not a supported language. Please select from: ",
                              AVAILABLE_LANGUAGES>>
                  /\ requests' = <<>>
          /\ (state.stage = CHAT_STAGE_ASK_SYMPTOMS /\ Strip(TurnMessage) = <<>>)
               => state' = state ]_vars

\* a language refused, then one accepted, then blank symptoms refused
C3_Witness ==
    /\ Len(history) = 3
    /\ ~NamesLanguage(history[1][1])
    /\ history[1][2] = language_error(history[1][1])
    /\ Strip(history[3][1]) = <<>>
    /\ state.stage = CHAT_STAGE_ASK_SYMPTOMS
    /\ state.symptoms_en = None
    /\ Len(state.gemini_chat_history_manual) = 2

\* C4: the language and its code are set in stage AskLanguage and in no
\* other: they are unset exactly in stage AskLanguage, and a turn of a later
\* stage leaves both as they were chosen, unless it raises an exception and
\* so resets the session
C4_LangCodeSetOnce ==
    [][ TurnStep =>
          /\ (state'.stage = CHAT_STAGE_ASK_LANGUAGE) <=> (state'.lang_code = NoCode)
          /\ state'.lang_code # NoCode =>
                 \E i \in DOMAIN LANG_ITEMS :
                     /\ state'.language = LANG_ITEMS[i][1]
                     /\ state'.lang_code = LANG_ITEMS[i][2]
          /\ (state.stage # CHAT_STAGE_ASK_LANGUAGE /\ ~TurnRaised) =>
                 /\ state'.lang_code = state.lang_code
                 /\ state'.language = state.language
          /\ TurnRaised => state' = initialize_chat_state ]_vars

\* French chosen and kept through the symptoms, the allergies and a question
C4_Witness ==
    /\ state.stage = CHAT_STAGE_GENERAL_QNA
    /\ Len(history) = 4
    /\ state.lang_code = "fr"
    /\ state.language = <<"F", "r", "e", "n", "c", "h">>

\* the texts get_gemini_response returns for a request that failed or that
\* it could not make
IsFailureText(t) ==
    /\ t # <<>>
    /\ t[1] \in {"Error: Gemini API not available. Cannot provide medical information.",
                 "Error: Unauthorized. Check your API key. ",
                 "Error: Rate limit exceeded. Try again later. ",
                 "Error communicating with Gemini API: "}

\* C5 as stated: wherever the stored translated summary is set, the
\* diagnosis call of the session has returned a successful result
C5_SummaryOnlyAfterSuccess ==
    state.translated_summary # None =>
        /\ Truthy(state.drug_concept_full_en)
        /\ ~IsFailureText(state.drug_concept_full_en)

\* C5, amended: wherever the stored translated summary is set, the diagnosis
\* call of the session has returned, with a response or with a failure text,
\* and what it returned is stored; the session is in stage GeneralQnA
C5_SummaryOnlyAfterDiagnosisCall ==
    state.translated_summary # None =>
        /\ state.stage = CHAT_STAGE_GENERAL_QNA
        /\ Truthy(state.drug_concept_full_en)
        /\ state.drug_concept_full_en \in DiagReplies
           \/ IsFailureText(state.drug_concept_full_en)

\* the summary stored after a diagnosis that was answered
C5_Witness ==
    /\ state.translated_summary # None
    /\ state.drug_concept_full_en = PartReply
    /\ state.stage = CHAT_STAGE_GENERAL_QNA

\* C11: a turn in which an exception is raised (the message is None and
\* the stage's code calls its strip method: every stage, GeneralQnA when the
\* language is not English) still returns: the bot message of the turn's
\* pair is the error string, both summaries show it, and the session state
\* is the initial one
C11_ExceptionResets ==
    [][ ( /\ TurnStep
          /\ TurnMessage = None
          /\ ~(state.stage = CHAT_STAGE_GENERAL_QNA /\ state.lang_code = "en") )
        => /\ history' = Append(history,
                 <<None, <<"An error occurred: ", STRIP_OF_NONE,
                            ". Please try again or restart the conversation.">> >>)
           /\ translated_summary' = <<"Error: ">> \o TurnReply
           /\ english_summary' = <<"Error: ">> \o TurnReply
           /\ state' = initialize_chat_state
           /\ state'.stage = CHAT_STAGE_ASK_LANGUAGE
           /\ state'.gemini_chat_history_manual = <<>> ]_vars

\* a question of a French session that raised, after the diagnosis
C11_Witness ==
    /\ Len(history) = 4
    /\ history[3][1] # None
    /\ history[2][1] # None
    /\ history[1][1] = <<" ", "f", "r", "e", "n", "c", "h", "\n">>
    /\ Strip(history[2][1]) # <<>>
    /\ history[4][1] = None
    /\ history[4][2] = error_message(STRIP_OF_NONE)
    /\ state = initialize_chat_state

\* a turn of stage AskAllergies that did not raise and whose diagnosis call
\* returned a failure message
DiagnosisFailedTurn ==
    /\ TurnStep
    /\ ~TurnRaised
    /\ state.stage = CHAT_STAGE_ASK_ALLERGIES
    /\ IsFailureText(state'.drug_concept_full_en)

\* C12 as stated: when the diagnosis call of the AskAllergies turn fails the
\* turn completes, and the drug concept's field of the summary holds the
\* failure message the completion wrapper returned
C12_FailureMessageInField ==
    [][ DiagnosisFailedTurn =>
          /\ state'.stage = CHAT_STAGE_GENERAL_QNA
          /\ Contains(english_summary',
                      <<"**Medicine:** ">> \o state'.drug_concept_full_en)
      ]_vars

\* what the simplification of a field that is "Not found" returns from the
\* service when the call succeeds
SimplifiedNotFound(prompt) ==
    <<" ", "<reply>", prompt>> \o NOT_FOUND \o <<"</reply>", "\n">>

\* C12, amended: when the diagnosis call of the AskAllergies turn fails the
\* turn completes in GeneralQnA; the failure message is the stored response
\* and the bot output recorded in the turn history; each extracted field is
\* "Not found", so the drug concept's field of the summary holds what the
\* simplification of "Not found" returned: the service's answer, or that
\* call's own failure message
C12_FailureMessageStored ==
    [][ DiagnosisFailedTurn =>
          /\ state'.stage = CHAT_STAGE_GENERAL_QNA
          /\ state'.gemini_chat_history_manual =
                 state.gemini_chat_history_manual
                 \o << [role |-> "user",
                        text |-> <<"Allergies: ">> \o state'.allergies_en],
                       [role |-> "model", text |-> state'.drug_concept_full_en] >>
          /\ state.lang_code = "en" => TurnReply = state'.drug_concept_full_en
          /\ state'.translated_summary = translated_summary'
          /\ \/ Contains(english_summary',
                   <<"**Medicine:** ">>
                   \o SimplifiedNotFound("Simplify this drug concept into 2-3 short bullet points about what it is and how it works: ")
                   \o <<"\n", "\n", "**Dosage:** ">>)
             \/ /\ \E i \in DOMAIN english_summary' :
                     /\ english_summary'[i] = "**Medicine:** "
                     /\ IsFailureText(SubSeq(english_summary', i + 1, i + 1))
                /\ \/ ~gemini_client
                   \/ \E i \in DOMAIN requests' :
                        /\ RequestClass(requests'[i]) = "complete"
                        /\ requests'[i].prompt =
                             <<"Simplify this drug concept into 2-3 short bullet points about what it is and how it works: ">>
                             \o NOT_FOUND
      ]_vars

\* the diagnosis call failed for want of quota and the simplifications were
\* answered
C12_Witness ==
    /\ Len(history) = 3
    /\ state.stage = CHAT_STAGE_GENERAL_QNA
    /\ state.lang_code = "en"
    /\ state.drug_concept_full_en =
           <<"Error: Rate limit exceeded. Try again later. ", "Q", "u", "o", "t", "a">>
    /\ history[3][2] = state.drug_concept_full_en
    /\ Contains(english_summary,
           <<"**Safety Notes:** ">>
           \o SimplifiedNotFound("Simplify this safety information into 2-3 short bullet points about allergies and side effects: "))

\* C13: an export made while no translated summary is stored, that is in
\* every state before the AskAllergies turn has completed and in the state
\* left by an explicit or an error reset, returns None, and an export leaves
\* the Session State and the other components as they are
C13_ExportWithoutSummary ==
    [][ ret' # ret =>
          /\ UNCHANGED <<state, history, english_summary, translated_summary>>
          /\ ret'.done
          /\ ( \/ state.stage # CHAT_STAGE_GENERAL_QNA
               \/ state = initialize_chat_state
               \/ ~Truthy(state.translated_summary) ) => ret'.out = NoPath
      ]_vars

\* an export was made and returned None, and the session is one that an
\* exception has reset after its language was chosen
C13_Witness ==
    /\ ret = [done |-> TRUE, out |-> NoPath]
    /\ state = initialize_chat_state
    /\ Len(history) = 2
    /\ history[2][2] = error_message(STRIP_OF_NONE)

\* C14: a turn that starts in GeneralQnA and does not raise ends in
\* GeneralQnA and changes nothing in the Session State but the turn history,
\* to which it appends the question and the answer
C14_QnAChangesOnlyHistory ==
    [][ (TurnStep /\ state.stage = CHAT_STAGE_GENERAL_QNA /\ ~TurnRaised) =>
          /\ state'.stage = CHAT_STAGE_GENERAL_QNA
          /\ state' = [state EXCEPT !.gemini_chat_history_manual =
                                        state'.gemini_chat_history_manual]
          /\ Len(state'.gemini_chat_history_manual) =
                 Len(state.gemini_chat_history_manual) + 2
          /\ SubSeq(state'.gemini_chat_history_manual, 1,
                    Len(state.gemini_chat_history_manual)) =
                 state.gemini_chat_history_manual
          /\ state'.gemini_chat_history_manual[
                 Len(state.gemini_chat_history_manual) + 1].role = "user"
          /\ state'.gemini_chat_history_manual[
                 Len(state.gemini_chat_history_manual) + 2].role = "model"
      ]_vars

\* a question was asked in French and answered
C14_Witness ==
    /\ Len(history) = 4
    /\ state.stage = CHAT_STAGE_GENERAL_QNA
    /\ state.lang_code = "fr"
    /\ Len(state.gemini_chat_history_manual) = 8
    /\ state.gemini_chat_history_manual[7].role = "user"
    /\ ~IsFailureText(state.gemini_chat_history_manual[8].text)
    /\ history[4][2] # state.gemini_chat_history_manual[8].text

\* C15: in AskAllergies every text, "None" and the empty text included, is
\* taken as the allergy statement and stored in both forms, and the turn
\* ends in GeneralQnA; no turn that starts in AskAllergies ends in
\* AskAllergies, and no turn at all ends in GenerateResponse
C15_AllergiesAlwaysAccepted ==
    [][ TurnStep =>
          /\ state'.stage # CHAT_STAGE_GENERATE_RESPONSE
          /\ state.stage = CHAT_STAGE_ASK_ALLERGIES =>
               /\ state'.stage # CHAT_STAGE_ASK_ALLERGIES
               /\ ~TurnRaised =>
                    /\ state'.stage = CHAT_STAGE_GENERAL_QNA
                    /\ state'.allergies_user_lang = Strip(TurnMessage)
                    /\ (state.lang_code = "en" \/ Strip(TurnMessage) = <<>>)
                           => state'.allergies_en = TurnMessage
                    /\ state'.allergies_en # None
                    /\ state'.drug_concept_full_en # None
      ]_vars

\* the empty text was given as the allergy statement of a French session
C15_Witness ==
    /\ Len(history) = 3
    /\ history[3][1] = <<>>
    /\ state.stage = CHAT_STAGE_GENERAL_QNA
    /\ state.lang_code = "fr"
    /\ state.allergies_user_lang = <<>>
    /\ state.allergies_en = <<>>

\* a turn of AskSymptoms in an English session on a text
EnglishSymptomsTurn ==
    /\ TurnStep
    /\ state.stage = CHAT_STAGE_ASK_SYMPTOMS
    /\ state.lang_code = "en"
    /\ TurnMessage # None

\* C16 as stated: in AskSymptoms with the language English every non-empty
\* input is stored verbatim as the user-language and as the English symptom
\* text, the stage moves to AskAllergies and the reply asks for allergies
C16_SymptomsStoredVerbatim ==
    [][ (EnglishSymptomsTurn /\ TurnMessage # <<>>) =>
          /\ state'.symptoms_user_lang = TurnMessage
          /\ state'.symptoms_en = TurnMessage
          /\ state'.stage = CHAT_STAGE_ASK_ALLERGIES
          /\ TurnReply = ASK_ALLERGIES
      ]_vars

\* C16, amended: in AskSymptoms with the language English every input that
\* is not blank is accepted; the user-language form is the input trimmed of
\* surrounding white space and the English form is the input as typed, so
\* the two are the input itself when it has no surrounding white space; the
\* stage moves to AskAllergies and the reply asks for allergies
C16_SymptomsStoredTrimmed ==
    [][ (EnglishSymptomsTurn /\ Strip(TurnMessage) # <<>>) =>
          /\ state'.symptoms_user_lang = Strip(TurnMessage)
          /\ state'.symptoms_en = TurnMessage
          /\ state'.stage = CHAT_STAGE_ASK_ALLERGIES
          /\ TurnReply = ASK_ALLERGIES
          /\ requests' = <<>>
      ]_vars

\* symptoms typed with a space after them: the two stored forms differ
C16_Witness ==
    /\ Len(history) = 2
    /\ state.stage = CHAT_STAGE_ASK_ALLERGIES
    /\ state.lang_code = "en"
    /\ history[2] = << <<"f", "l", "u", " ">>, ASK_ALLERGIES >>
    /\ state.symptoms_user_lang = <<"f", "l", "u">>
    /\ state.symptoms_en = <<"f", "l", "u", " ">>

\* a turn that was accepted: it did not raise, and it moved the stage or
\* was a turn of GeneralQnA
AcceptedTurn ==
    /\ TurnStep
    /\ ~TurnRaised
    /\ state'.stage # state.stage \/ state.stage = CHAT_STAGE_GENERAL_QNA

\* the label the stage puts before the English form of the user's input
UserEntryLabel(stage) ==
    CASE stage = CHAT_STAGE_ASK_SYMPTOMS -> <<"Symptoms: ">>
      [] stage = CHAT_STAGE_ASK_ALLERGIES -> <<"Allergies: ">>
      [] OTHER -> <<>>

\* roles alternate user, model from the first entry, which makes the length
\* even, and the length is what the stage reached accounts for: two entries
\* for each of the transitions made, and two more for each question
TurnHistoryShape(h, stage) ==
    /\ Len(h) % 2 = 0
    /\ \A i \in DOMAIN h :
           h[i].role = (IF i % 2 = 1 THEN "user" ELSE "model")
    /\ stage = CHAT_STAGE_ASK_LANGUAGE => Len(h) = 0
    /\ stage = CHAT_STAGE_ASK_SYMPTOMS => Len(h) = 2
    /\ stage = CHAT_STAGE_ASK_ALLERGIES => Len(h) = 4
    /\ stage = CHAT_STAGE_GENERAL_QNA => Len(h) >= 6

\* C17: every accepted turn, that is every stage transition and every turn
\* of GeneralQnA, appends to the turn history the English form of the user's
\* input and then the English bot output; a rejected turn appends nothing
\* and a reset empties it; so at the end of every turn the length is even,
\* the roles alternate from user, and the length is twice the number of
\* accepted turns since the last reset
C17_TurnHistoryPairs ==
    [][ /\ TurnHistoryShape(state'.gemini_chat_history_manual, state'.stage)
        /\ AcceptedTurn =>
             /\ Len(state'.gemini_chat_history_manual) =
                    Len(state.gemini_chat_history_manual) + 2
             /\ SubSeq(state'.gemini_chat_history_manual, 1,
                       Len(state.gemini_chat_history_manual)) =
                    state.gemini_chat_history_manual
             /\ state.stage = CHAT_STAGE_ASK_LANGUAGE =>
                    state'.gemini_chat_history_manual[1].text =
                        <<"User selected language: ">> \o state'.language
             /\ state.lang_code = "en" =>
                  /\ state'.gemini_chat_history_manual[
                         Len(state.gemini_chat_history_manual) + 1].text =
                       UserEntryLabel(state.stage) \o TurnMessage
                  /\ state'.gemini_chat_history_manual[
                         Len(state.gemini_chat_history_manual) + 2].text =
                       TurnReply
        /\ (TurnStep /\ ~TurnRaised /\ ~AcceptedTurn) =>
             state'.gemini_chat_history_manual = state.gemini_chat_history_manual
        /\ (TurnStep /\ TurnRaised) => state'.gemini_chat_history_manual = <<>>
        /\ ~TurnStep => state'.gemini_chat_history_manual = <<>>
      ]_vars

\* four turns accepted in a row in an English session
C17_Witness ==
    /\ Len(history) = 4
    /\ state.lang_code = "en"
    /\ Len(state.gemini_chat_history_manual) = 8
    /\ state.gemini_chat_history_manual[7] =
           [role |-> "user", text |-> history[4][1]]
    /\ state.gemini_chat_history_manual[8] =
           [role |-> "model", text |-> history[4][2]]
    /\ state.gemini_chat_history_manual[5].text =
           <<"Allergies: ">> \o history[3][1]

\* the completion requests a later turn issues to the service: the
\* diagnosis request of an AskAllergies turn, the question of a GeneralQnA
\* turn
ContextRequest(req, stage) ==
    \/ stage = CHAT_STAGE_ASK_ALLERGIES /\ RequestClass(req) = "diagnose"
    \/ stage = CHAT_STAGE_GENERAL_QNA /\ RequestClass(req) = "complete"

\* C18: the diagnosis request of the AskAllergies turn and the question of
\* a GeneralQnA turn carry the turn history accumulated in the session: at
\* least the entries the state held when the turn began
C18_RequestsCarryTurnHistory ==
    [][ TurnStep =>
          \A i \in DOMAIN requests' :
              ContextRequest(requests'[i], state.stage) =>
                  /\ Len(requests'[i].history) >=
                         Len(state.gemini_chat_history_manual)
                  /\ SubSeq(requests'[i].history, 1,
                            Len(state.gemini_chat_history_manual)) =
                         state.gemini_chat_history_manual
      ]_vars

\* C19: once a diagnosis exists, that is after the AskAllergies turn and
\* after every turn of GeneralQnA, the translated summary stored in the
\* Session State is the translated summary the turn returned to the
\* interface
C19_StoredSummaryIsShown ==
    state.stage = CHAT_STAGE_GENERAL_QNA =>
        state.translated_summary = translated_summary

\* the text of the last entry of the state's turn history
LastModelText(st) ==
    IF st.gemini_chat_history_manual = <<>> THEN <<>>
    ELSE st.gemini_chat_history_manual[Len(st.gemini_chat_history_manual)].text

\* the texts get_gemini_response returns for an authorization and for a
\* quota failure
IsAuthOrQuotaText(t) ==
    /\ t # <<>>
    /\ t[1] \in {"Error: Unauthorized. Check your API key. ",
                 "Error: Rate limit exceeded. Try again later. "}

\* a turn of GeneralQnA whose completion call failed for authorization or
\* quota: the error string is the turn's English record or its bot message
QnAFailedTurn ==
    /\ TurnStep
    /\ state.stage = CHAT_STAGE_GENERAL_QNA
    /\ ~TurnRaised
    /\ \/ IsAuthOrQuotaText(LastModelText(state'))
       \/ IsAuthOrQuotaText(TurnReply)

\* a turn of GeneralQnA that follows one whose completion call failed
QnATurnAfterFailure ==
    /\ TurnStep
    /\ state.stage = CHAT_STAGE_GENERAL_QNA
    /\ Len(state.gemini_chat_history_manual) >= 8
    /\ IsAuthOrQuotaText(LastModelText(state))
    /\ ~TurnRaised

\* C20 as stated: in a GeneralQnA turn whose completion call fails for
\* authorization or quota the bot message shown is exactly the wrapper's
\* error string, the state is not reset and the stage stays GeneralQnA
C20_FailureShownVerbatim ==
    [][ QnAFailedTurn =>
          /\ TurnReply = LastModelText(state')
          /\ state'.stage = CHAT_STAGE_GENERAL_QNA
          /\ state' # initialize_chat_state
      ]_vars

\* C20, amended: in such a turn the bot message is the wrapper's error
\* string passed through the translation to the user's language: the error
\* string itself in an English session and where the translation is not
\* made or fails, the service's translation of it otherwise; the English
\* record of the turn is the error string, the state keeps everything but
\* the turn history, the stage stays GeneralQnA, and the turn that follows
\* is processed as any question: its request is issued and its answer, or
\* its own failure, is recorded
C20_FailureShownThroughTranslation ==
    [][ /\ QnAFailedTurn =>
             /\ state'.stage = CHAT_STAGE_GENERAL_QNA
             /\ state' = [state EXCEPT !.gemini_chat_history_manual =
                                           state'.gemini_chat_history_manual]
             /\ state.lang_code = "en" => TurnReply = LastModelText(state')
             /\ \/ TurnReply = LastModelText(state')
                \/ /\ state.lang_code # "en"
                   /\ requests' # <<>>
                   /\ requests'[Len(requests')].prompt =
                          translate_prompt(LastModelText(state'), "en",
                                           state.lang_code)
                   /\ TurnReply =
                          Strip(ServiceText(requests'[Len(requests')], NoFailure))
        /\ QnATurnAfterFailure =>
             /\ state'.stage = CHAT_STAGE_GENERAL_QNA
             /\ Len(state'.gemini_chat_history_manual) =
                    Len(state.gemini_chat_history_manual) + 2
             /\ gemini_client =>
                  \E i \in DOMAIN requests' :
                      /\ RequestClass(requests'[i]) = "complete"
                      /\ state.lang_code = "en" =>
                             requests'[i].prompt = qna_context(state, TurnMessage)
                      /\ \/ LastModelText(state') =
                                ServiceText(requests'[i], NoFailure)
                         \/ IsAuthOrQuotaText(LastModelText(state'))
      ]_vars

\* a French session: the first question failed for want of quota and its
\* error string was shown translated, the second question was answered
C20_Witness ==
    /\ Len(history) = 5
    /\ state.stage = CHAT_STAGE_GENERAL_QNA
    /\ state.lang_code = "fr"
    /\ Len(state.gemini_chat_history_manual) = 10
    /\ IsAuthOrQuotaText(state.gemini_chat_history_manual[8].text)
    /\ history[4][2] # state.gemini_chat_history_manual[8].text
    /\ ~IsFailureText(state.gemini_chat_history_manual[10].text)

\* the calls of gemini_translate and get_gemini_response a turn of the
\* stage reaches in process_chat: lines 324-325; 259 and 351 or 358; 259,
\* 388, 419, 424, 453-456, 467-472 and 474-477; 259, 296-299, 301-306, 499,
\* 521 and 524
CallSites(stage) ==
    CASE stage = CHAT_STAGE_ASK_LANGUAGE -> 2
      [] stage = CHAT_STAGE_ASK_SYMPTOMS -> 2
      [] stage = CHAT_STAGE_ASK_ALLERGIES -> 18
      [] stage = CHAT_STAGE_GENERAL_QNA -> 14
      [] OTHER -> 0

\* the completion calls among them that are not the diagnosis: 453-456; 521
CompletionSites(stage) ==
    CASE stage = CHAT_STAGE_ASK_ALLERGIES -> 4
      [] stage = CHAT_STAGE_GENERAL_QNA -> 1
      [] OTHER -> 0

\* the positions of the log that hold a request of the class
RequestsOf(log, class) ==
    { i \in DOMAIN log : RequestClass(log[i]) = class }

\* C21: a turn issues at most one request for each call it reaches, whatever
\* the requests' outcomes: a request that failed is not issued again; the
\* diagnosis request is issued at most once in a turn, only in the
\* AskAllergies turn, before the other completions, and only in a session
\* that holds no diagnosis yet; a session that holds one is in GeneralQnA,
\* so one diagnosis request is issued between two resets
C21_NoRetries ==
    [][ /\ state'.drug_concept_full_en # None =>
               state'.stage = CHAT_STAGE_GENERAL_QNA
        /\ TurnStep =>
             /\ Len(requests') <= CallSites(state.stage)
             /\ Cardinality(RequestsOf(requests', "complete")) <=
                    CompletionSites(state.stage)
             /\ Cardinality(RequestsOf(requests', "diagnose")) <= 1
             /\ RequestsOf(requests', "diagnose") # {} =>
                    /\ state.stage = CHAT_STAGE_ASK_ALLERGIES
                    /\ state.drug_concept_full_en = None
                    /\ \A i \in RequestsOf(requests', "diagnose"),
                          j \in RequestsOf(requests', "complete") : i < j
             /\ (gemini_client /\ state.stage = CHAT_STAGE_ASK_ALLERGIES
                 /\ ~TurnRaised) =>
                    Cardinality(RequestsOf(requests', "diagnose")) = 1
      ]_vars

\* the AskAllergies turn of a French session in which every translation
\* failed: each of the eighteen calls issued its request once
C21_Witness ==
    /\ Len(history) = 3
    /\ state.stage = CHAT_STAGE_GENERAL_QNA
    /\ state.lang_code = "fr"
    /\ Len(requests) = 18
    /\ Cardinality(RequestsOf(requests, "diagnose")) = 1
    /\ Cardinality(RequestsOf(requests, "translate")) = 13
    /\ ~IsFailureText(state.drug_concept_full_en)
    /\ history[3][2] = state.drug_concept_full_en

\* the data the Session State holds is the data its stage has collected
DataMatchesStage(st) ==
    /\ st.stage \in {CHAT_STAGE_ASK_LANGUAGE, CHAT_STAGE_ASK_SYMPTOMS,
                     CHAT_STAGE_ASK_ALLERGIES, CHAT_STAGE_GENERAL_QNA}
    /\ st.language # None <=> st.stage # CHAT_STAGE_ASK_LANGUAGE
    /\ st.lang_code # NoCode <=> st.stage # CHAT_STAGE_ASK_LANGUAGE
    /\ st.stage # CHAT_STAGE_ASK_LANGUAGE =>
           /\ st.language \in LangNames
           /\ st.lang_code = LANG_CODES(st.language)
    /\ st.symptoms_user_lang # None <=>
           st.stage \in {CHAT_STAGE_ASK_ALLERGIES, CHAT_STAGE_GENERAL_QNA}
    /\ st.symptoms_en # None <=>
           st.stage \in {CHAT_STAGE_ASK_ALLERGIES, CHAT_STAGE_GENERAL_QNA}
    /\ st.allergies_user_lang # None <=> st.stage = CHAT_STAGE_GENERAL_QNA
    /\ st.allergies_en # None <=> st.stage = CHAT_STAGE_GENERAL_QNA
    /\ st.drug_concept_full_en # None <=> st.stage = CHAT_STAGE_GENERAL_QNA
    /\ st.translated_summary # None <=> st.stage = CHAT_STAGE_GENERAL_QNA

\* C22: at the end of every turn the collected data matches the stage: the
\* language and its code, which is the table's code of the language, are
\* set exactly past AskLanguage, the symptoms exactly in AskAllergies and
\* GeneralQnA, the allergies, the stored response and the stored summary
\* exactly in GeneralQnA; so no turn of AskSymptoms or AskAllergies takes
\* the "Language not set" branch
C22_DataMatchesStage ==
    [][ /\ DataMatchesStage(state)
        /\ DataMatchesStage(state')
        /\ (TurnStep /\ state.stage \in {CHAT_STAGE_ASK_SYMPTOMS,
                                         CHAT_STAGE_ASK_ALLERGIES}) =>
               /\ state.lang_code # NoCode
               /\ TurnReply # <<"Error: Language not set. Please start over.">>
      ]_vars

\* a French session reset by an exception in AskAllergies and started again
\* in English: the symptoms of the first session are gone
C22_Witness ==
    /\ Len(history) = 4
    /\ history[1][1] = <<" ", "f", "r", "e", "n", "c", "h", "\n">>
    /\ history[3][2] = error_message(STRIP_OF_NONE)
    /\ state.stage = CHAT_STAGE_ASK_SYMPTOMS
    /\ state.language = <<"E", "n", "g", "l", "i", "s", "h">>
    /\ state.lang_code = "en"
    /\ state.symptoms_en = None
    /\ Len(state.gemini_chat_history_manual) = 2

-----
(* Properties of the first turn.                                            *)

\* C2: in stage AskLanguage a supported language's name in any
\* capitalization is accepted: the canonical name and the code LANG_CODES
\* has for it are stored and the stage is AskSymptoms
C2_AnyCapitalizationAccepted ==
    (args.fn = "process_chat" /\ ret.done) =>
        /\ state.language = args.name
        /\ \E i \in DOMAIN LANG_ITEMS :
               LANG_ITEMS[i] = <<args.name, state.lang_code>>
        /\ state.stage = CHAT_STAGE_ASK_SYMPTOMS

\* eNgLiSh accepted as English
C2_Witness ==
    /\ args.fn = "process_chat"
    /\ ret.done
    /\ args.message = <<"e", "N", "g", "L", "i", "S", "h">>
    /\ state.language = <<"E", "n", "g", "l", "i", "s", "h">>
    /\ state.lang_code = "en"
    /\ state.stage = CHAT_STAGE_ASK_SYMPTOMS

-----
(* Properties of gemini_translate.                                          *)

\* a call of gemini_translate has returned
Translated == args.fn = "gemini_translate" /\ ret.done

\* C6 as stated: gemini_translate(text, X, X, temp) returns text, for every
\* code X and every text
C6_SameCodeReturnsText ==
    (Translated /\ args.src_lang_code = args.tgt_lang_code) => ret.out = args.text

\* C6, amended: gemini_translate(text, X, X, temp) returns text, and sends
\* nothing, for every supported code X and every text that is empty or not
\* blank, and for every X and every text when there is no client
C6_SameKnownCodeReturnsText ==
    ( /\ Translated
      /\ args.src_lang_code = args.tgt_lang_code
      /\ \/ ~gemini_client
         \/ /\ args.src_lang_code \in {LANG_ITEMS[i][2] : i \in DOMAIN LANG_ITEMS}
            /\ args.text = <<>> \/ Strip(args.text) # <<>> )
    => (ret.out = args.text /\ requests = <<>>)

\* a padded text from French to French, with the client
C6_Witness ==
    /\ Translated
    /\ gemini_client
    /\ args.src_lang_code = "fr"
    /\ args.tgt_lang_code = "fr"
    /\ args.text = <<" ", "h", "i", " ">>
    /\ ret.out = args.text

\* C7 as stated: an empty or blank text is returned unchanged, for all codes
\* and with or without the client
C7_BlankReturnedUnchanged ==
    (Translated /\ Strip(args.text) = <<>>) => ret.out = args.text

\* C7, amended: for an empty or blank text and all codes nothing is sent;
\* with the client the empty text is returned, without it the text unchanged
\* (so the empty text gives the empty text in both cases)
C7_BlankReturnsEmpty ==
    (Translated /\ Strip(args.text) = <<>>) =>
        /\ requests = <<>>
        /\ gemini_client => ret.out = <<>>
        /\ ~gemini_client => ret.out = args.text
        /\ args.text = <<>> => ret.out = <<>>

\* a blank text from English to French, with the client
C7_Witness ==
    /\ Translated
    /\ gemini_client
    /\ args.text = <<"\n", " ", "\t">>
    /\ args.src_lang_code = "en"
    /\ args.tgt_lang_code = "fr"
    /\ ret.out = <<>>

\* the translation is attempted: there is a client, the text is not blank,
\* and the source is not a supported code equal to the target (the target
\* being English when it is not a supported code)
Attempted ==
    /\ gemini_client
    /\ Strip(args.text) # <<>>
    /\ ~ /\ args.src_lang_code \in LangCodeValues
         /\ args.src_lang_code =
                (IF args.tgt_lang_code \in LangCodeValues
                 THEN args.tgt_lang_code ELSE "en")

\* C8: a translation that is attempted sends exactly one request, and when
\* that request fails the text is returned as it was given; one that is not
\* attempted sends none
C8_OneRequestAndTextOnFailure ==
    Translated =>
        /\ Attempted =>
             /\ Len(requests) = 1
             /\ requests[1].api = "generate_content"
             /\ "translate" \in args.orc.fail => ret.out = args.text
        /\ ~Attempted => requests = <<>>

\* a failed translation from auto-detect to English
C8_Witness ==
    /\ Translated
    /\ Attempted
    /\ "translate" \in args.orc.fail
    /\ args.text = <<"h", "i">>
    /\ args.src_lang_code = "xx"
    /\ Len(requests) = 1
    /\ ret.out = <<"h", "i">>

-----
(* Properties of the field extraction.                                      *)

\* the extraction has been applied
Extracted == args.fn = "extract_fields" /\ ret.done

\* the fields in the order of the headers
FieldOf(out, k) ==
    CASE k = 1 -> out.diagnosis
      [] k = 2 -> out.drug_concept
      [] k = 3 -> out.dosage
      [] k = 4 -> out.safety

\* the first header after header k that the response has; 5 if none
NextPresent(a, k) ==
    IF \E j \in a.present : j > k
    THEN CHOOSE j \in a.present : j > k /\ \A i \in a.present : i > k => j <= i
    ELSE 5

\* the texts of the sections k to n - 1, one after the other
RECURSIVE SectionsText(_, _, _)
SectionsText(a, k, n) ==
    IF k >= n THEN <<>>
    ELSE SectionText(k, a.styles[k]) \o SectionsText(a, k + 1, n)

\* the text between header k and the next header of the response
Between(a, k) == SectionsText(a, k, NextPresent(a, k))

\* C9: for a response with the four headers, the fields are the texts that
\* follow the headers, in the headers' order, each trimmed; no field holds
\* a header or a word of another section
C9_WellFormedFields ==
    (Extracted /\ args.present = 1..4) =>
        \A k \in 1..4 :
            /\ FieldOf(ret.out, k) = Strip(SectionText(k, args.styles[k]))
            /\ \A j \in 1..4 :
                   /\ ~Contains(Lower(FieldOf(ret.out, k)), Lower(HEADERS[j]))
                   /\ j # k => ~Contains(FieldOf(ret.out, k), SectionWords[j])

\* four headers in lower case after a preamble, the texts on lines of their own
C9_Witness ==
    /\ Extracted
    /\ args.present = 1..4
    /\ args.lower
    /\ args.pre # <<>>
    /\ \A k \in 1..4 : args.styles[k] = "block"
    /\ ret.out = [diagnosis |-> SectionWords[1], drug_concept |-> SectionWords[2],
                  dosage |-> SectionWords[3], safety |-> SectionWords[4]]

\* C10: for a response with three of the four headers, the field of the
\* missing header is "Not found" and no other is; each other field is the
\* text between its header and the next header there is, or the end, trimmed
C10_OneHeaderMissing ==
    (Extracted /\ Cardinality(args.present) = 3) =>
        \A k \in 1..4 :
            /\ k \notin args.present =>
                   FieldOf(ret.out, k) = <<"N", "o", "t", " ", "f", "o", "u", "n", "d">>
            /\ k \in args.present =>
                   /\ FieldOf(ret.out, k) = Strip(Between(args, k))
                   /\ FieldOf(ret.out, k) # <<"N", "o", "t", " ", "f", "o", "u", "n", "d">>

\* the drug's header missing: the diagnosis runs to the dosage's header
C10_Witness ==
    /\ Extracted
    /\ args.present = {1, 3, 4}
    /\ \A k \in 1..4 : args.styles[k] = "line"
    /\ ret.out.drug_concept = NOT_FOUND
    /\ ret.out.diagnosis = SectionWords[1] \o <<"\n", " ">> \o SectionWords[2]
    /\ ret.out.dosage = SectionWords[3]

====
